---- MODULE Spec2Model ----
(***************************************************************************)
(* Model of src/main.py of baraj_takip: the reservoir fill-level scraper   *)
(* (scrape_levels and its helpers parse_percentage and _sum_row) and the   *)
(* 15-day forecast extractor (_parse_accu_15day, fetch_accuweather_15day,  *)
(* fetch_all_accuweather).                                                 *)
(*                                                                         *)
(* Text is a sequence of one-character strings.  The degree sign is the    *)
(* character "deg"; Turkish letters are written with their ASCII base      *)
(* letter (they are letters to every pattern of the program).              *)
(*                                                                         *)
(* A Python float is modelled as an exact decimal [m, e] = m * 10^(-e),    *)
(* normalised so that equal numbers are equal records (73.40 = 73.4).      *)
(* float()'s grammar is modelled for sign, digits and one decimal point;   *)
(* the inputs of the model hold no exponent, underscore, "inf" or "nan".   *)
(***************************************************************************)
EXTENDS Integers, Sequences, FiniteSets, TLC

VARIABLES
    \* parse_percentage, called on its own
    ppText, ppDefault, ppOut, ppPc,
    \* _sum_row, called on its own
    srRow, srOut, srPc,
    \* scrape_levels
    scPc,        \* the block of scrape_levels control is in
    scStep,      \* position inside that block (which driver, which page)
    drv,         \* each driver variable: "unbound", "open", "quit", "quit_failed"
    navigated,   \* the drivers whose get() has completed, in order
    sleeps,      \* completed time.sleep(2) calls
    readOrder,   \* the drivers whose page_source has been read, in order
    found,       \* r1, r2, r4, toplam_row, kullanilabilir_row as located
    level,       \* the locals ist, bur, izm, ank
    scPending,   \* what the finally block completes with
    scExc,       \* the exception in flight or propagated, or "none"
    scOutcome,   \* "running", "returned" or "raised"
    scResult,    \* the returned map
    \* the per-card part of _parse_accu_15day, called on one card text
    cardText, cardOut, cardPc,
    \* _parse_accu_15day
    acDoc,       \* the elements of the parsed document, in document order
    acCards,     \* the local `cards` after the selector loop
    acTried,     \* how many selectors bs.select was called with
    acOut,       \* the returned list
    acPc,
    \* fetch_all_accuweather
    ftPc, ftStep,
    ftResp,      \* what requests.get did for each city so far
    ftOut,       \* the local `out`: the cities assigned so far
    ftExc, ftOutcome, ftResult

pctVars == <<ppText, ppDefault, ppOut, ppPc>>
rowVars == <<srRow, srOut, srPc>>
scrapeVars == <<scPc, scStep, drv, navigated, sleeps, readOrder, found, level,
                scPending, scExc, scOutcome, scResult>>
cardVars == <<cardText, cardOut, cardPc>>
accuVars == <<acDoc, acCards, acTried, acOut, acPc>>
fetchVars == <<ftPc, ftStep, ftResp, ftOut, ftExc, ftOutcome, ftResult>>
vars == <<pctVars, rowVars, scrapeVars, cardVars, accuVars, fetchVars>>

-----------------------------------------------------------------------------
(* Bounds of the model *)

\* longest enumerated input text of parse_percentage
MaxLen == 3
\* most cells in an enumerated table row
MaxCells == 3
\* longest enumerated forecast-card text
MaxCardLen == 4
\* most elements of one kind in an enumerated forecast document
MaxCards == 16

-----------------------------------------------------------------------------
(* Python str and float *)

Digits == {"0", "1", "2", "3", "4", "5", "6", "7", "8", "9"}

DigitVal(c) ==
    CASE c = "0" -> 0 [] c = "1" -> 1 [] c = "2" -> 2 [] c = "3" -> 3
      [] c = "4" -> 4 [] c = "5" -> 5 [] c = "6" -> 6 [] c = "7" -> 7
      [] c = "8" -> 8 [] c = "9" -> 9

\* str.replace(c, "")
Remove(s, c) == SelectSeq(s, LAMBDA x : x # c)

\* str.replace(a, b) for one-character a and b
ReplaceChar(s, a, b) == [i \in 1..Len(s) |-> IF s[i] = a THEN b ELSE s[i]]

\* str.strip()
Strip(s) ==
    LET keep == {i \in 1..Len(s) : s[i] # " "}
    IN  IF keep = {} THEN <<>>
        ELSE LET lo == CHOOSE i \in keep : \A j \in keep : i <= j
                 hi == CHOOSE i \in keep : \A j \in keep : j <= i
             IN  SubSeq(s, lo, hi)

\* s[:n]
Take(s, n) == SubSeq(s, 1, IF Len(s) < n THEN Len(s) ELSE n)

RECURSIVE DigitsToInt(_)
DigitsToInt(ds) ==
    IF ds = <<>> THEN 0
    ELSE 10 * DigitsToInt(SubSeq(ds, 1, Len(ds) - 1)) + DigitVal(ds[Len(ds)])

RECURSIVE Pow10(_)
Pow10(n) == IF n = 0 THEN 1 ELSE 10 * Pow10(n - 1)

\* the decimal m * 10^(-e) in normal form
RECURSIVE Num(_, _)
Num(m, e) ==
    IF m = 0 THEN [m |-> 0, e |-> 0]
    ELSE IF e > 0 /\ m % 10 = 0 THEN Num(m \div 10, e - 1)
    ELSE [m |-> m, e |-> e]

Zero == Num(0, 0)

\* float + float
Add(a, b) ==
    LET e == IF a.e > b.e THEN a.e ELSE b.e
    IN  Num(a.m * Pow10(e - a.e) + b.m * Pow10(e - b.e), e)

\* float(s): [ok |-> FALSE] stands for ValueError
FloatOf(s) ==
    LET t    == Strip(s)
        sgn  == Len(t) > 0 /\ t[1] \in {"+", "-"}
        body == IF sgn THEN Tail(t) ELSE t
        dots == {i \in 1..Len(body) : body[i] = "."}
        ds   == SelectSeq(body, LAMBDA c : c \in Digits)
        ok   == /\ \A i \in 1..Len(body) : body[i] \in Digits \cup {"."}
                /\ Cardinality(dots) <= 1
                /\ ds # <<>>
        e    == IF dots = {} THEN 0 ELSE Len(body) - (CHOOSE i \in dots : TRUE)
        m    == DigitsToInt(ds)
    IN  IF ~ok THEN [ok |-> FALSE, v |-> Zero]
        ELSE [ok |-> TRUE, v |-> Num(IF sgn /\ t[1] = "-" THEN -m ELSE m, e)]

-----------------------------------------------------------------------------
(* parse_percentage *)

Str(s) == [kind |-> "str", chars |-> s]
None == [kind |-> "None", chars |-> <<>>]

\* the body of the try block: the exception it raises, or "none" and the value
ParsePercentageTry(text) ==
    IF text.kind # "str" THEN [exc |-> "AttributeError", v |-> Zero]
    ELSE LET cleaned == Strip(ReplaceChar(Remove(text.chars, "%"), ",", "."))
             f == FloatOf(cleaned)
         IN  IF f.ok THEN [exc |-> "none", v |-> f.v]
             ELSE [exc |-> "ValueError", v |-> Zero]

\* ParsePercentageCaught as `except ValueError` alone (a faulty variant)
CaughtValueErrorOnly == {"ValueError"}

\* the exceptions of the except clause
ParsePercentageCaught == {"AttributeError", "ValueError"}

parse_percentage(text, default) ==
    LET r == ParsePercentageTry(text)
    IN  IF r.exc = "none" THEN [raised |-> "none", v |-> r.v]
        ELSE IF r.exc \in ParsePercentageCaught
             THEN [raised |-> "none", v |-> default]
        ELSE [raised |-> r.exc, v |-> Zero]

-----------------------------------------------------------------------------
(* _sum_row *)

\* A located label element, or None.  inTr: the label has an enclosing <tr>;
\* cells: the <td> elements of that row in document order, each with its
\* class and its text.
NoLabel == [kind |-> "None", inTr |-> FALSE, cells |-> <<>>]
Label(inTr, cells) == [kind |-> "span", inTr |-> inTr, cells |-> cells]
Cell(cls, text) == [cls |-> cls, text |-> text]

\* CellFloat with the thousands dots kept (a faulty variant)
CellFloatKeepsDots(value) == FloatOf(ReplaceChar(value, ",", "."))

\* the try block of the loop body: float(value.replace(".", "").replace(",", "."))
CellFloat(value) == FloatOf(ReplaceChar(Remove(value, "."), ",", "."))

\* one pass of the loop body over a cell, from the running total
SumRowStep(total, cell) ==
    LET value == Strip(cell.text)
        f == CellFloat(value)
    IN  IF value = <<>> THEN total
        ELSE IF f.ok THEN Add(total, f.v)
        ELSE total

RECURSIVE SumRowLoop(_, _)
SumRowLoop(total, cells) ==
    IF cells = <<>> THEN total
    ELSE SumRowLoop(SumRowStep(total, Head(cells)), Tail(cells))

\* parent.find_all("td", class_="damtotaltd")
FindAllTotalCells(cells) == SelectSeq(cells, LAMBDA c : c.cls = "damtotaltd")

_sum_row(row) ==
    IF row.kind = "None" THEN Zero
    ELSE IF ~row.inTr THEN Zero
    ELSE SumRowLoop(Zero, FindAllTotalCells(row.cells))

-----------------------------------------------------------------------------
(* Texts used as inputs *)

Text7340 == <<"7", "3", ",", "4", "0", "%">>
Text734sp == <<"7", "3", ",", "4", " ", "%">>
Text612 == <<"6", "1", ".", "2">>
Text1234c5 == <<"1", ".", "2", "3", "4", ",", "5">>
TextBad == <<"b", "a", "d">>
Text765c0 == <<"7", "6", "5", ",", "0">>
TextNeg5 == <<"-", "5">>
TextPad12 == <<" ", "1", "2", " ">>
Text0c5 == <<"0", ",", "5">>
Text999 == <<"9", "9", "9">>

-----------------------------------------------------------------------------
(* scrape_levels: pure parts *)

\* round(n / d) for integers n and d > 0: the nearest integer.  When n / d
\* lies exactly halfway the binary float quotient may fall on either side of
\* the tie, so both neighbours are outcomes.
RoundDiv(n, d) ==
    LET q == n \div d
        r == n % d
    IN  IF 2 * r < d THEN {q}
        ELSE IF 2 * r > d THEN {q + 1}
        ELSE {q, q + 1}

\* round(k / t * 100, 2) for t # 0: the possible results
RatioPct(k, t) ==
    LET c == IF k.e < t.e THEN k.e ELSE t.e
        n == k.m * Pow10(t.e - c) * 10000
        d == t.m * Pow10(k.e - c)
    IN  {Num(h, 2) : h \in IF d > 0 THEN RoundDiv(n, d) ELSE RoundDiv(-n, -d)}

\* the division: ZeroDivisionError when the divisor is 0
Divide100(k, t) ==
    IF t = Zero THEN {[raised |-> "ZeroDivisionError", v |-> Zero]}
    ELSE {[raised |-> "none", v |-> x] : x \in RatioPct(k, t)}

\* IzmirPct with the guard on toplam_sum left out (a faulty variant)
IzmirPctUnguarded(kullanilabilir_sum, toplam_sum) ==
    Divide100(kullanilabilir_sum, toplam_sum)

\* izm = round(kullanilabilir_sum / toplam_sum * 100, 2) if toplam_sum else 0.0
\* (the possible outcomes)
IzmirPct(kullanilabilir_sum, toplam_sum) ==
    IF toplam_sum # Zero THEN Divide100(kullanilabilir_sum, toplam_sum)
    ELSE {[raised |-> "none", v |-> Zero]}

\* r.get_text(strip=True) if r else ""
NodeText(r) == IF r.kind = "None" THEN Str(<<>>) ELSE Str(Strip(r.chars))

\* ReadPercentage with -1 passed as the default (a faulty variant)
ReadPercentageMinusOne(r) == parse_percentage(NodeText(r), Num(-1, 0))

\* parse_percentage(r.get_text(strip=True) if r else "", 0.0)
ReadPercentage(r) == parse_percentage(NodeText(r), Zero)

Cities == {"Istanbul", "Bursa", "Izmir", "Ankara"}

\* {"Istanbul": ist, "Bursa": bur, "Izmir": izm, "Ankara": ank}
ResultMap(lv) ==
    [c \in Cities |->
        CASE c = "Istanbul" -> lv.ist.v [] c = "Bursa" -> lv.bur.v
          [] c = "Izmir" -> lv.izm.v [] c = "Ankara" -> lv.ank.v]

-----------------------------------------------------------------------------
(* scrape_levels: control flow *)

\* the order of the four launches, of the four get() calls and of the finally loop
DrvOrder == <<"drv_ist", "drv_bur", "drv_ank", "drv_izm">>
\* the order in which page_source is read
PageOrder == <<"drv_ist", "drv_bur", "drv_izm", "drv_ank">>
Drivers == {"drv_ist", "drv_bur", "drv_ank", "drv_izm"}
NDrivers == Len(DrvOrder)

Unset == [set |-> FALSE, v |-> Zero]
Val(v) == [set |-> TRUE, v |-> v]
NoMap == [c \in {} |-> Zero]

\* DOM nodes the three single-node pages can hold
NodeInputs ==
    {None, Str(Text7340), Str(Text612), Str(TextBad), Str(<<" ", "5", "0", "%", " ">>)}

\* labelled rows the Izmir page can hold
RowSamples ==
    {NoLabel, Label(FALSE, <<>>), Label(TRUE, <<>>),
     Label(TRUE, <<Cell("damtotaltd", Text1234c5), Cell("damtotaltd", TextBad),
                   Cell("damtotaltd", Text765c0)>>),
     Label(TRUE, <<Cell("other", Text999), Cell("damtotaltd", Text765c0)>>),
     Label(TRUE, <<Cell("damtotaltd", <<"3">>)>>),
     Label(TRUE, <<Cell("damtotaltd", <<"5">>), Cell("damtotaltd", TextNeg5)>>),
     Label(TRUE, <<Cell("damtotaltd", TextNeg5), Cell("damtotaltd", Text0c5)>>)}

IdleScrape ==
    /\ scPc = "idle"
    /\ scStep = 1
    /\ drv = [d \in Drivers |-> "unbound"]
    /\ navigated = <<>>
    /\ sleeps = 0
    /\ readOrder = <<>>
    /\ found = [r1 |-> None, r2 |-> None, r4 |-> None,
                toplam_row |-> NoLabel, kullanilabilir_row |-> NoLabel]
    /\ level = [ist |-> Unset, bur |-> Unset, izm |-> Unset, ank |-> Unset]
    /\ scPending = "none"
    /\ scExc = "none"
    /\ scOutcome = "running"
    /\ scResult = NoMap

ScrapeStart ==
    /\ scPc = "launch"
    /\ scStep = 1
    /\ drv = [d \in Drivers |-> "unbound"]
    /\ navigated = <<>>
    /\ sleeps = 0
    /\ readOrder = <<>>
    /\ found = [r1 |-> None, r2 |-> None, r4 |-> None,
                toplam_row |-> NoLabel, kullanilabilir_row |-> NoLabel]
    /\ level = [ist |-> Unset, bur |-> Unset, izm |-> Unset, ank |-> Unset]
    /\ scPending = "none"
    /\ scExc = "none"
    /\ scOutcome = "running"
    /\ scResult = NoMap

\* to the next step of the block, or to block `next` after its last step
Advance(next) ==
    IF scStep < NDrivers THEN scPc' = scPc /\ scStep' = scStep + 1
    ELSE scPc' = next /\ scStep' = 1

\* an exception inside the try block: control goes to the finally block
RaiseInTry(e) ==
    /\ scPc' = "finally"
    /\ scStep' = 1
    /\ scPending' = "raise"
    /\ scExc' = e

\* drv_x = _new_headless_driver() succeeds
LaunchOk ==
    /\ scPc = "launch"
    /\ drv' = [drv EXCEPT ![DrvOrder[scStep]] = "open"]
    /\ Advance("get")
    /\ UNCHANGED <<navigated, sleeps, readOrder, found, level, scPending, scExc,
                   scOutcome, scResult, pctVars, rowVars, cardVars, accuVars, fetchVars>>

\* webdriver.Chrome(...) raises: the launches are before the try statement
LaunchFail ==
    /\ scPc = "launch"
    /\ scPc' = "done"
    /\ scExc' = "WebDriverException"
    /\ scOutcome' = "raised"
    /\ UNCHANGED <<scStep, drv, navigated, sleeps, readOrder, found, level,
                   scPending, scResult, pctVars, rowVars, cardVars, accuVars, fetchVars>>

\* drv_x.get(url) returns
GetOk ==
    /\ scPc = "get"
    /\ navigated' = Append(navigated, DrvOrder[scStep])
    /\ Advance("sleep")
    /\ UNCHANGED <<drv, sleeps, readOrder, found, level, scPending, scExc,
                   scOutcome, scResult, pctVars, rowVars, cardVars, accuVars, fetchVars>>

\* drv_x.get(url) raises
GetFail ==
    /\ scPc = "get"
    /\ RaiseInTry("WebDriverException")
    /\ UNCHANGED <<drv, navigated, sleeps, readOrder, found, level, scOutcome,
                   scResult, pctVars, rowVars, cardVars, accuVars, fetchVars>>

\* Settle with the sleep left out (a faulty variant)
SettleSkipped ==
    /\ scPc = "sleep"
    /\ scPc' = "read"
    /\ scStep' = 1
    /\ UNCHANGED <<drv, navigated, sleeps, readOrder, found, level, scPending, scExc,
                   scOutcome, scResult, pctVars, rowVars, cardVars, accuVars, fetchVars>>

\* time.sleep(2)
Settle ==
    /\ scPc = "sleep"
    /\ sleeps' = sleeps + 1
    /\ scPc' = "read"
    /\ scStep' = 1
    /\ UNCHANGED <<drv, navigated, readOrder, found, level, scPending, scExc,
                   scOutcome, scResult, pctVars, rowVars, cardVars, accuVars, fetchVars>>

\* after a page is read and its value computed: next page, or the exception
AfterRead(p) ==
    IF p.raised = "none"
    THEN /\ IF scStep < NDrivers THEN scPc' = "read" /\ scStep' = scStep + 1
            ELSE scPc' = "return" /\ scStep' = 1
         /\ UNCHANGED <<scPending, scExc>>
    ELSE RaiseInTry(p.raised)

\* soup1 ... ist = parse_percentage(...)
ReadIst ==
    /\ scPc = "read" /\ PageOrder[scStep] = "drv_ist"
    /\ \E r1 \in NodeInputs :
         LET p == ReadPercentage(r1)
         IN  /\ found' = [found EXCEPT !.r1 = r1]
             /\ level' = [level EXCEPT !.ist = IF p.raised = "none" THEN Val(p.v) ELSE @]
             /\ AfterRead(p)
    /\ readOrder' = Append(readOrder, "drv_ist")
    /\ UNCHANGED <<drv, navigated, sleeps, scOutcome, scResult, pctVars, rowVars, cardVars, accuVars, fetchVars>>

\* soup2 ... bur = parse_percentage(...)
ReadBur ==
    /\ scPc = "read" /\ PageOrder[scStep] = "drv_bur"
    /\ \E r2 \in NodeInputs :
         LET p == ReadPercentage(r2)
         IN  /\ found' = [found EXCEPT !.r2 = r2]
             /\ level' = [level EXCEPT !.bur = IF p.raised = "none" THEN Val(p.v) ELSE @]
             /\ AfterRead(p)
    /\ readOrder' = Append(readOrder, "drv_bur")
    /\ UNCHANGED <<drv, navigated, sleeps, scOutcome, scResult, pctVars, rowVars, cardVars, accuVars, fetchVars>>

\* soup3 ... izm = round(...) if toplam_sum else 0.0
ReadIzm ==
    /\ scPc = "read" /\ PageOrder[scStep] = "drv_izm"
    /\ \E toplam_row \in RowSamples, kullanilabilir_row \in RowSamples :
         \E p \in IzmirPct(_sum_row(kullanilabilir_row), _sum_row(toplam_row)) :
             /\ found' = [found EXCEPT !.toplam_row = toplam_row,
                                       !.kullanilabilir_row = kullanilabilir_row]
             /\ level' = [level EXCEPT !.izm = IF p.raised = "none" THEN Val(p.v) ELSE @]
             /\ AfterRead(p)
    /\ readOrder' = Append(readOrder, "drv_izm")
    /\ UNCHANGED <<drv, navigated, sleeps, scOutcome, scResult, pctVars, rowVars, cardVars, accuVars, fetchVars>>

\* soup4 ... ank = parse_percentage(...)
ReadAnk ==
    /\ scPc = "read" /\ PageOrder[scStep] = "drv_ank"
    /\ \E r4 \in NodeInputs :
         LET p == ReadPercentage(r4)
         IN  /\ found' = [found EXCEPT !.r4 = r4]
             /\ level' = [level EXCEPT !.ank = IF p.raised = "none" THEN Val(p.v) ELSE @]
             /\ AfterRead(p)
    /\ readOrder' = Append(readOrder, "drv_ank")
    /\ UNCHANGED <<drv, navigated, sleeps, scOutcome, scResult, pctVars, rowVars, cardVars, accuVars, fetchVars>>

\* drv_x.page_source raises
ReadFail ==
    /\ scPc = "read"
    /\ RaiseInTry("WebDriverException")
    /\ UNCHANGED <<drv, navigated, sleeps, readOrder, found, level, scOutcome,
                   scResult, pctVars, rowVars, cardVars, accuVars, fetchVars>>

\* return {...}: the map is built, then the finally block runs
Return ==
    /\ scPc = "return"
    /\ scResult' = ResultMap(level)
    /\ scPending' = "return"
    /\ scPc' = "finally"
    /\ scStep' = 1
    /\ UNCHANGED <<drv, navigated, sleeps, readOrder, found, level, scExc,
                   scOutcome, pctVars, rowVars, cardVars, accuVars, fetchVars>>

\* if d: d.quit()   (a driver object is always true)
QuitOk ==
    /\ scPc = "finally"
    /\ drv' = [drv EXCEPT ![DrvOrder[scStep]] = IF @ = "unbound" THEN @ ELSE "quit"]
    /\ Advance("leave")
    /\ UNCHANGED <<navigated, sleeps, readOrder, found, level, scPending, scExc,
                   scOutcome, scResult, pctVars, rowVars, cardVars, accuVars, fetchVars>>

\* d.quit() raises: the loop is left and the exception propagates
QuitFail ==
    /\ scPc = "finally"
    /\ drv[DrvOrder[scStep]] # "unbound"
    /\ drv' = [drv EXCEPT ![DrvOrder[scStep]] = "quit_failed"]
    /\ scPc' = "done"
    /\ scExc' = "WebDriverException"
    /\ scOutcome' = "raised"
    /\ scResult' = NoMap
    /\ UNCHANGED <<scStep, navigated, sleeps, readOrder, found, level, scPending,
                   pctVars, rowVars, cardVars, accuVars, fetchVars>>

\* the finally block ends: the pending return or exception takes effect
Leave ==
    /\ scPc = "leave"
    /\ scPc' = "done"
    /\ scOutcome' = IF scPending = "return" THEN "returned" ELSE "raised"
    /\ UNCHANGED <<scStep, drv, navigated, sleeps, readOrder, found, level,
                   scPending, scExc, scResult, pctVars, rowVars, cardVars, accuVars, fetchVars>>

NextScrape ==
    \/ LaunchOk \/ LaunchFail
    \/ GetOk \/ GetFail
    \/ Settle
    \/ ReadIst \/ ReadBur \/ ReadIzm \/ ReadAnk \/ ReadFail
    \/ Return
    \/ QuitOk \/ QuitFail
    \/ Leave

-----------------------------------------------------------------------------
(* Specification SpecPct: parse_percentage on enumerated inputs *)

PctAlphabet == {"7", "0", ",", ".", "%", " ", "-", "x"}

RECURSIVE StringsOver(_, _)
StringsOver(A, n) ==
    IF n = 0 THEN {<<>>}
    ELSE LET shorter == StringsOver(A, n - 1)
         IN  shorter \cup {Append(s, c) : s \in {t \in shorter : Len(t) = n - 1}, c \in A}

PctTexts ==
    {Str(s) : s \in StringsOver(PctAlphabet, MaxLen)
                      \cup {Text7340, Text734sp, Text612, Text1234c5, TextBad}}
        \cup {None}

PctDefaults == {Zero, Num(-1, 0), Num(55, 1)}

NoOut == [raised |-> "unset", v |-> Zero]

IdlePct ==
    /\ ppText = None
    /\ ppDefault = Zero
    /\ ppOut = NoOut
    /\ ppPc = "idle"

PctStart ==
    /\ ppText \in PctTexts
    /\ ppDefault \in PctDefaults
    /\ ppOut = NoOut
    /\ ppPc = "call"

CallParsePercentage ==
    /\ ppPc = "call"
    /\ ppOut' = parse_percentage(ppText, ppDefault)
    /\ ppPc' = "done"
    /\ UNCHANGED <<ppText, ppDefault, rowVars, scrapeVars, cardVars, accuVars, fetchVars>>

NextPct == CallParsePercentage

-----------------------------------------------------------------------------
(* Specification SpecRow: _sum_row on enumerated rows *)

RowCells ==
    {Cell("damtotaltd", t) :
        t \in {Text1234c5, TextBad, Text765c0, <<>>, <<" ">>, TextNeg5, TextPad12, Text0c5}}
        \cup {Cell("other", Text999)}

RECURSIVE SeqsOver(_, _)
SeqsOver(A, n) ==
    IF n = 0 THEN {<<>>}
    ELSE LET shorter == SeqsOver(A, n - 1)
         IN  shorter \cup {Append(s, c) : s \in {t \in shorter : Len(t) = n - 1}, c \in A}

RowInputs ==
    {NoLabel} \cup {Label(FALSE, <<>>)}
        \cup {Label(TRUE, cs) : cs \in SeqsOver(RowCells, MaxCells)}

IdleRow ==
    /\ srRow = NoLabel
    /\ srOut = Zero
    /\ srPc = "idle"

RowStart ==
    /\ srRow \in RowInputs
    /\ srOut = Zero
    /\ srPc = "call"

CallSumRow ==
    /\ srPc = "call"
    /\ srOut' = _sum_row(srRow)
    /\ srPc' = "done"
    /\ UNCHANGED <<srRow, pctVars, scrapeVars, cardVars, accuVars, fetchVars>>

NextRow == CallSumRow

-----------------------------------------------------------------------------
(* _parse_accu_15day: one card *)

\* ForecastDay fields are an int or None
NoneInt == [null |-> TRUE, n |-> 0]
IntVal(n) == [null |-> FALSE, n |-> n]

NoMatch == [ok |-> FALSE, stop |-> 0, n |-> 0]

IsDigitAt(s, i) == i >= 1 /\ i <= Len(s) /\ s[i] \in Digits
IsCharAt(s, i, c) == i >= 1 /\ i <= Len(s) /\ s[i] = c

\* \d{1,2} followed by the character c, tried at position i: two digits
\* first (the quantifier is greedy), then one
DigitsThen(s, i, c) ==
    IF IsDigitAt(s, i) /\ IsDigitAt(s, i + 1) /\ IsCharAt(s, i + 2, c)
    THEN [ok |-> TRUE, stop |-> i + 3, n |-> 10 * DigitVal(s[i]) + DigitVal(s[i + 1])]
    ELSE IF IsDigitAt(s, i) /\ IsCharAt(s, i + 1, c)
    THEN [ok |-> TRUE, stop |-> i + 2, n |-> DigitVal(s[i])]
    ELSE NoMatch

\* the pattern (-?\d{1,2}) followed by the degree sign, tried at position i;
\* n is int() of the group
DegreeAt(s, i) ==
    IF IsCharAt(s, i, "-")
    THEN LET m == DigitsThen(s, i + 1, "deg")
         IN  IF m.ok THEN [ok |-> TRUE, stop |-> m.stop, n |-> -m.n] ELSE NoMatch
    ELSE DigitsThen(s, i, "deg")

\* re.findall of the degree pattern, scanning from position i: the groups
\* of the non-overlapping matches, left to right
RECURSIVE FindAllDegrees(_, _)
FindAllDegrees(s, i) ==
    IF i > Len(s) THEN <<>>
    ELSE LET m == DegreeAt(s, i)
         IN  IF m.ok THEN <<m.n>> \o FindAllDegrees(s, m.stop)
             ELSE FindAllDegrees(s, i + 1)

\* the pattern (\d{1,2})% tried at position i
PercentAt(s, i) == DigitsThen(s, i, "%")

\* re.search of the percent pattern, scanning from position i: the leftmost match
RECURSIVE SearchPercent(_, _)
SearchPercent(s, i) ==
    IF i > Len(s) THEN NoMatch
    ELSE LET m == PercentAt(s, i)
         IN  IF m.ok THEN m ELSE SearchPercent(s, i + 1)

\* text[:200]
TextLimit == 200

\* the loop body for card number i (0-based) with text `text`
CardRecord(i, text) ==
    LET highs == FindAllDegrees(text, 1)
        h == IF Len(highs) >= 1 THEN IntVal(highs[1]) ELSE NoneInt
        l == IF Len(highs) >= 2 THEN IntVal(highs[2]) ELSE NoneInt
        m_prec == SearchPercent(text, 1)
        precip == IF m_prec.ok THEN IntVal(m_prec.n) ELSE NoneInt
    IN  [day_index |-> i + 1, text |-> Take(text, TextLimit),
         high_c |-> h, low_c |-> l, precip_pct |-> precip]

-----------------------------------------------------------------------------
(* _parse_accu_15day: the selector loop and the card loop *)

\* An element of the document: its tag, its classes, its data-qa attribute
\* ("" when absent), the classes of the <div> elements it lies within, and
\* its text as get_text(" ", strip=True) gives it.
Element(tag, class, qa, within, text) ==
    [tag |-> tag, class |-> class, qa |-> qa, within |-> within, text |-> text]

\* A selector: tag ("*" for any), class, data-qa value and the class of a
\* <div> ancestor, each "" when the selector does not ask for it.
Selector(tag, class, qa, within) ==
    [tag |-> tag, class |-> class, qa |-> qa, within |-> within]

Selectors ==
    << Selector("a", "daily-forecast-card", "", ""),
       Selector("div", "daily-forecast-card", "", ""),
       Selector("li", "daily-forecast-card", "", ""),
       Selector("*", "", "daily-card", ""),
       Selector("a", "", "daily-card", ""),
       Selector("li", "", "daily-card", ""),
       Selector("a", "", "", "forecast-list"),
       Selector("li", "daily-card", "", ""),
       Selector("a", "", "", "daily-list") >>

Matches(sel, el) ==
    /\ sel.tag = "*" \/ el.tag = sel.tag
    /\ sel.class = "" \/ sel.class \in el.class
    /\ sel.qa = "" \/ el.qa = sel.qa
    /\ sel.within = "" \/ sel.within \in el.within

\* bs.select(sel)
Select(sel, doc) == SelectSeq(doc, LAMBDA el : Matches(sel, el))

\* len(cards) >= 7
MinCards == 7
\* cards[:15]
MaxDays == 15

\* EnoughCards with a strict comparison (a faulty variant)
MoreThanMinCards(cards) == Len(cards) > MinCards

\* if len(cards) >= 7: break
EnoughCards(cards) == Len(cards) >= MinCards

\* the for loop over the selectors from the k-th on: the value of `cards`
\* when the loop is left, and the number of selectors tried
RECURSIVE SelectLoop(_, _)
SelectLoop(doc, k) ==
    LET cards == Select(Selectors[k], doc)
    IN  IF EnoughCards(cards) \/ k = Len(Selectors)
        THEN [cards |-> cards, tried |-> k]
        ELSE SelectLoop(doc, k + 1)

\* CardLoop over all of `cards`, not cards[:15] (a faulty variant)
CardLoopUncapped(cards) ==
    [j \in 1..Len(cards) |-> CardRecord(j - 1, cards[j].text)]

\* for i, c in enumerate(cards[:15]): out.append({...})
CardLoop(cards) ==
    LET shown == Take(cards, MaxDays)
    IN  [j \in 1..Len(shown) |-> CardRecord(j - 1, shown[j].text)]

_parse_accu_15day(doc) == CardLoop(SelectLoop(doc, 1).cards)

-----------------------------------------------------------------------------
(* fetch_accuweather_15day and fetch_all_accuweather *)

\* the cities of _accu_url_defaults(), in the order of the dict
FetchCities == <<"Istanbul", "Bursa", "Izmir", "Ankara">>

\* what requests.get(url, headers=headers, timeout=15) does: it raises, or
\* returns a response with a status code and a body
Raises(e) == [kind |-> "raise", exc |-> e, status |-> 0, doc |-> <<>>]
Response(status, doc) == [kind |-> "response", exc |-> "none", status |-> status, doc |-> doc]

\* fetch_accuweather_15day for a response that was returned
FetchedList(resp) == IF resp.status # 200 THEN <<>> ELSE _parse_accu_15day(resp.doc)

-----------------------------------------------------------------------------
(* Specification SpecCard: the card loop body on enumerated card texts *)

CardAlphabet == {"2", "4", "deg", "%", "-", " ", "a"}

\* "Persembe 24(deg) 15(deg) %20 yagmur"
TextPrefixPct ==
    <<"P", "e", "r", "s", "e", "m", "b", "e", " ", "2", "4", "deg", " ",
      "1", "5", "deg", " ", "%", "2", "0", " ", "y", "a", "g", "m", "u", "r">>
\* "Persembe 24(deg) 15(deg) 20% yagmur"
TextSuffixPct ==
    <<"P", "e", "r", "s", "e", "m", "b", "e", " ", "2", "4", "deg", " ",
      "1", "5", "deg", " ", "2", "0", "%", " ", "y", "a", "g", "m", "u", "r">>
\* "Cuma -3(deg) -11(deg) 5% 40% kar"
TextFrost ==
    <<"C", "u", "m", "a", " ", "-", "3", "deg", " ", "-", "1", "1", "deg", " ",
      "5", "%", " ", "4", "0", "%", " ", "k", "a", "r">>
\* "Sicak 24(deg)"
TextHighOnly == <<"S", "i", "c", "a", "k", " ", "2", "4", "deg">>

CardTexts ==
    StringsOver(CardAlphabet, MaxCardLen)
        \cup {TextPrefixPct, TextSuffixPct, TextFrost, TextHighOnly}

NoRecord ==
    [day_index |-> 0, text |-> <<>>, high_c |-> NoneInt, low_c |-> NoneInt,
     precip_pct |-> NoneInt]

IdleCard ==
    /\ cardText = <<>>
    /\ cardOut = NoRecord
    /\ cardPc = "idle"

CardStart ==
    /\ cardText \in CardTexts
    /\ cardOut = NoRecord
    /\ cardPc = "call"

ParseCard ==
    /\ cardPc = "call"
    /\ cardOut' = CardRecord(0, cardText)
    /\ cardPc' = "done"
    /\ UNCHANGED <<cardText, pctVars, rowVars, scrapeVars, accuVars, fetchVars>>

NextCard == ParseCard

-----------------------------------------------------------------------------
(* Specification SpecAccu: _parse_accu_15day on enumerated documents *)

\* the kinds of element a document is built from
ElementKinds ==
    { Element("a", {"daily-forecast-card"}, "", {}, <<>>),
      Element("div", {"daily-forecast-card"}, "", {}, <<>>),
      Element("li", {"daily-forecast-card"}, "", {}, <<>>),
      Element("div", {}, "daily-card", {}, <<>>),
      Element("li", {"daily-card"}, "daily-card", {}, <<>>),
      Element("a", {}, "", {"forecast-list"}, <<>>),
      Element("a", {"daily-forecast-card", "card"}, "daily-card", {"daily-list"}, <<>>),
      Element("a", {}, "", {"daily-list"}, <<>>),
      Element("span", {"date"}, "", {"daily-list"}, <<>>) }

GroupSizes == {0, 3, 5, MinCards, 12, MaxCards}

\* n elements of kind k, all with the text t
Group(k, n, t) == [j \in 1..n |-> [k EXCEPT !.text = t]]

Documents ==
    { Group(k1, n1, TextPrefixPct) \o Group(k2, n2, TextFrost) \o Group(k3, n3, TextHighOnly) :
        k1 \in ElementKinds, n1 \in GroupSizes \ {0},
        k2 \in ElementKinds, n2 \in GroupSizes \ {12},
        k3 \in ElementKinds, n3 \in {0, 12} }

IdleAccu ==
    /\ acDoc = <<>>
    /\ acCards = <<>>
    /\ acTried = 0
    /\ acOut = <<>>
    /\ acPc = "idle"

AccuStart ==
    /\ acDoc \in Documents
    /\ acCards = <<>>
    /\ acTried = 0
    /\ acOut = <<>>
    /\ acPc = "call"

ParseAccu15Day ==
    /\ acPc = "call"
    /\ LET loop == SelectLoop(acDoc, 1)
       IN  /\ acCards' = loop.cards
           /\ acTried' = loop.tried
    /\ acOut' = _parse_accu_15day(acDoc)
    /\ acPc' = "done"
    /\ UNCHANGED <<acDoc, pctVars, rowVars, scrapeVars, cardVars, fetchVars>>

NextAccu == ParseAccu15Day

-----------------------------------------------------------------------------
(* Specification SpecFetch: fetch_all_accuweather *)

FetchDocs ==
    { <<>>,
      Group(Element("a", {"daily-forecast-card"}, "", {}, <<>>), 3, TextSuffixPct),
      Group(Element("a", {"daily-forecast-card"}, "", {}, <<>>), 8, TextSuffixPct) }

Responses ==
    {Response(200, d) : d \in FetchDocs}
        \cup {Response(st, <<>>) : st \in {404, 503}}
        \cup {Raises(e) : e \in {"ConnectionError", "Timeout"}}

NotFetched == [set |-> FALSE, list |-> <<>>]
Fetched(l) == [set |-> TRUE, list |-> l]
NoForecasts == [c \in {} |-> <<>>]

IdleFetch ==
    /\ ftPc = "idle"
    /\ ftStep = 1
    /\ ftResp = <<>>
    /\ ftOut = [c \in Cities |-> NotFetched]
    /\ ftExc = "none"
    /\ ftOutcome = "running"
    /\ ftResult = NoForecasts

FetchStart ==
    /\ ftPc = "loop"
    /\ ftStep = 1
    /\ ftResp = <<>>
    /\ ftOut = [c \in Cities |-> NotFetched]
    /\ ftExc = "none"
    /\ ftOutcome = "running"
    /\ ftResult = NoForecasts

\* out[city] = fetch_accuweather_15day(city, url), requests.get returning
FetchCity ==
    /\ ftPc = "loop"
    /\ \E resp \in {r \in Responses : r.kind = "response"} :
         /\ ftResp' = Append(ftResp, resp)
         /\ ftOut' = [ftOut EXCEPT ![FetchCities[ftStep]] = Fetched(FetchedList(resp))]
    /\ IF ftStep < Len(FetchCities) THEN ftPc' = "loop" /\ ftStep' = ftStep + 1
       ELSE ftPc' = "return" /\ ftStep' = ftStep
    /\ UNCHANGED <<ftExc, ftOutcome, ftResult, pctVars, rowVars, scrapeVars,
                   cardVars, accuVars>>

\* requests.get raises: nothing in fetch_accuweather_15day or
\* fetch_all_accuweather catches it
FetchRaises ==
    /\ ftPc = "loop"
    /\ \E resp \in {r \in Responses : r.kind = "raise"} :
         /\ ftResp' = Append(ftResp, resp)
         /\ ftExc' = resp.exc
    /\ ftPc' = "done"
    /\ ftOutcome' = "raised"
    /\ UNCHANGED <<ftStep, ftOut, ftResult, pctVars, rowVars, scrapeVars,
                   cardVars, accuVars>>

\* return out
FetchReturn ==
    /\ ftPc = "return"
    /\ ftResult' = [c \in {x \in Cities : ftOut[x].set} |-> ftOut[c].list]
    /\ ftPc' = "done"
    /\ ftOutcome' = "returned"
    /\ UNCHANGED <<ftStep, ftResp, ftOut, ftExc, pctVars, rowVars, scrapeVars,
                   cardVars, accuVars>>

NextFetch == FetchCity \/ FetchRaises \/ FetchReturn

-----------------------------------------------------------------------------
(* Specifications *)

InitPct == PctStart /\ IdleRow /\ IdleScrape /\ IdleCard /\ IdleAccu /\ IdleFetch
SpecPct == InitPct /\ [][NextPct]_vars

InitRow == RowStart /\ IdlePct /\ IdleScrape /\ IdleCard /\ IdleAccu /\ IdleFetch
SpecRow == InitRow /\ [][NextRow]_vars

InitScrape == ScrapeStart /\ IdlePct /\ IdleRow /\ IdleCard /\ IdleAccu /\ IdleFetch
SpecScrape == InitScrape /\ [][NextScrape]_vars

InitCard == CardStart /\ IdlePct /\ IdleRow /\ IdleScrape /\ IdleAccu /\ IdleFetch
SpecCard == InitCard /\ [][NextCard]_vars

InitAccu == AccuStart /\ IdlePct /\ IdleRow /\ IdleScrape /\ IdleCard /\ IdleFetch
SpecAccu == InitAccu /\ [][NextAccu]_vars

InitFetch == FetchStart /\ IdlePct /\ IdleRow /\ IdleScrape /\ IdleCard /\ IdleAccu
SpecFetch == InitFetch /\ [][NextFetch]_vars

-----------------------------------------------------------------------------
(* Claims about scrape_levels (SpecScrape) *)

\* C1: when scrape_levels has ended, by a return or by an exception on any
\* path, no driver that was launched is still open (each was quit).
C1_NoSessionLeftOpen ==
    scPc = "done" => \A d \in Drivers : drv[d] # "open"

\* C3: whenever scrape_levels returns, the map has exactly the four city
\* keys, and a city whose node (for Izmir: either label) is missing has 0.0.
C3_FourCityMap ==
    scOutcome = "returned" =>
        /\ DOMAIN scResult = {"Istanbul", "Bursa", "Izmir", "Ankara"}
        /\ found.r1 = None => scResult["Istanbul"] = Zero
        /\ found.r2 = None => scResult["Bursa"] = Zero
        /\ found.r4 = None => scResult["Ankara"] = Zero
        /\ (found.toplam_row = NoLabel \/ found.kullanilabilir_row = NoLabel)
              => scResult["Izmir"] = Zero

\* C3 witness: a return with all four nodes missing and 0.0 for every city
C3_AllMissingReturned ==
    /\ scOutcome = "returned"
    /\ found.r1 = None /\ found.r2 = None /\ found.r4 = None
    /\ found.toplam_row = NoLabel /\ found.kullanilabilir_row = NoLabel
    /\ \A c \in Cities : scResult[c] = Zero

AbsInt(x) == IF x < 0 THEN -x ELSE x

\* izm, in hundredths, is within half a hundredth of k / t * 100
NearestHundredth(izm, k, t) ==
    LET c == IF k.e < t.e THEN k.e ELSE t.e
        n == k.m * Pow10(t.e - c) * 10000
        d == t.m * Pow10(k.e - c)
        h == izm.m * Pow10(2 - izm.e)
    IN  izm.e <= 2 /\ 2 * AbsInt(h * d - n) <= AbsInt(d)

\* C9: no ZeroDivisionError is ever raised, and once izm is computed it is
\* 0.0 when toplam_sum is 0 or either label is missing, and otherwise
\* kullanilabilir_sum / toplam_sum * 100 rounded to 2 decimals.
C9_IzmirRatio ==
    /\ scExc # "ZeroDivisionError"
    /\ level.izm.set =>
         LET t == _sum_row(found.toplam_row)
             k == _sum_row(found.kullanilabilir_row)
         IN  /\ t = Zero => level.izm.v = Zero
             /\ (found.toplam_row = NoLabel \/ found.kullanilabilir_row = NoLabel)
                   => level.izm.v = Zero
             /\ t # Zero => NearestHundredth(level.izm.v, k, t)

\* C9 witness: a return where toplam_sum is 0, kullanilabilir_sum is not,
\* and izm is 0.0
C9_ZeroTotalReturned ==
    /\ scOutcome = "returned"
    /\ _sum_row(found.toplam_row) = Zero
    /\ _sum_row(found.kullanilabilir_row) # Zero
    /\ scResult["Izmir"] = Zero

NoDuplicates(q) == \A i, j \in 1..Len(q) : q[i] = q[j] => i = j

\* C10: a navigation happens only when all four sessions are launched, the
\* single sleep only after all four navigations, and a page is read only
\* after all four navigations and that one sleep; each page is navigated and
\* read at most once.
C10_LaunchNavigateSettleRead ==
    /\ navigated # <<>> => \A d \in Drivers : drv[d] # "unbound"
    /\ sleeps <= 1
    /\ sleeps = 1 => Len(navigated) = 4
    /\ readOrder # <<>> => Len(navigated) = 4 /\ sleeps = 1
    /\ NoDuplicates(navigated) /\ NoDuplicates(readOrder)

\* C10 witness: all four pages read, after one sleep
C10_AllPagesRead ==
    Len(readOrder) = 4 /\ sleeps = 1 /\ Len(navigated) = 4

-----------------------------------------------------------------------------
(* Claims about fetch_all_accuweather (SpecFetch) *)

FetchFailed(resp) == resp.kind = "raise" \/ resp.status # 200

\* C2: the forecast pass always ends by returning a map with an entry for
\* every configured city, in which each city whose fetch failed (non-200
\* status, network error or timeout) has the empty list.
C2_FailedFetchIsolated ==
    ftPc = "done" =>
        /\ ftOutcome = "returned"
        /\ DOMAIN ftResult = {"Istanbul", "Bursa", "Izmir", "Ankara"}
        /\ \A i \in 1..Len(ftResp) :
              FetchFailed(ftResp[i]) => ftResult[FetchCities[i]] = <<>>

-----------------------------------------------------------------------------
(* Claims about _parse_accu_15day (SpecAccu, SpecCard) *)

MatchCount(k) ==
    Cardinality({i \in 1..Len(acDoc) : Matches(Selectors[k], acDoc[i])})

\* the first selector with at least 7 matches, or the last selector
ChosenSelector ==
    LET enough == {k \in 1..Len(Selectors) : MatchCount(k) >= 7}
    IN  IF enough = {} THEN Len(Selectors)
        ELSE CHOOSE k \in enough : \A j \in enough : k <= j

\* C4: the cards used are the matches of the first selector, in listed
\* order, with at least 7 matches, and no later selector is tried; if no
\* selector has 7 matches they are the matches of the last selector.
C4_FirstSelectorWithSeven ==
    acPc = "done" =>
        /\ acTried = ChosenSelector
        /\ acCards = Select(Selectors[ChosenSelector], acDoc)
        /\ Len(acOut) = IF Len(acCards) < 15 THEN Len(acCards) ELSE 15
        /\ \A i \in 1..Len(acOut) : acOut[i].text = acCards[i].text

\* C4 witness: match counts 3, 5, 12 for the first three selectors, and the
\* third selector's 12 matches used
C4_ThreeFiveTwelve ==
    /\ acPc = "done"
    /\ MatchCount(1) = 3 /\ MatchCount(2) = 5 /\ MatchCount(3) = 12
    /\ acTried = 3
    /\ Len(acCards) = 12

\* C5: the card text "Persembe 24(deg) 15(deg) %20 yagmur" gives high_c = 24,
\* low_c = 15 and precip_pct = 20.
C5_PrefixPercentCard ==
    (cardPc = "done" /\ cardText = TextPrefixPct) =>
        /\ cardOut.high_c = IntVal(24)
        /\ cardOut.low_c = IntVal(15)
        /\ cardOut.precip_pct = IntVal(20)

\* C6: the returned list has length min(number of selected cards, 15), its
\* i-th record (0-based) has day_index i + 1 and is made from the i-th
\* selected card; no selected card gives the empty list.
C6_ListShape ==
    acPc = "done" =>
        /\ Len(acOut) = IF Len(acCards) < 15 THEN Len(acCards) ELSE 15
        /\ \A i \in 1..Len(acOut) :
              /\ acOut[i].day_index = i
              /\ acOut[i] = CardRecord(i - 1, acCards[i].text)
        /\ acCards = <<>> => acOut = <<>>

\* C6 witness: more than 15 selected cards, 15 records
C6_MoreThanFifteenCards ==
    acPc = "done" /\ Len(acCards) > 15 /\ Len(acOut) = 15 /\ acOut[15].day_index = 15

-----------------------------------------------------------------------------
(* Claims about parse_percentage (SpecPct) and _sum_row (SpecRow) *)

\* the text after removing "%", replacing "," by "." and trimming
Cleaned(chars) == Strip(ReplaceChar(Remove(chars, "%"), ",", "."))

\* C7: parse_percentage never raises; it returns the number when the
\* cleaned text is a numeric string and exactly the caller's default
\* otherwise (None, "", "bad" and "1.234,5" included); "73,40%" gives 73.4.
C7_ParsePercentageTotal ==
    ppPc = "done" =>
        /\ ppOut.raised = "none"
        /\ ppText.kind # "str" => ppOut.v = ppDefault
        /\ ppText.kind = "str" =>
              LET f == FloatOf(Cleaned(ppText.chars))
              IN  ppOut.v = IF f.ok THEN f.v ELSE ppDefault
        /\ ppText \in {Str(<<>>), Str(TextBad), Str(Text1234c5), Str(<<"%">>),
                       Str(<<"7", " ", "0">>), Str(<<"-">>), Str(<<".">>)}
              => ppOut.v = ppDefault
        /\ ppText = Str(Text7340) => ppOut.v = Num(734, 1)
        /\ ppText = Str(Text734sp) => ppOut.v = Num(734, 1)
        /\ ppText = Str(<<"-", ",", "7">>) => ppOut.v = Num(-7, 1)

\* C7 witness: None as the text, and a non-zero default returned
C7_NoneGivesDefault ==
    /\ ppPc = "done"
    /\ ppText = None
    /\ ppDefault = Num(55, 1)
    /\ ppOut = [raised |-> "none", v |-> Num(55, 1)]

\* what a cell text contributes: its number, or nothing
CellNumber(text) ==
    CASE text = Text1234c5 -> <<Num(12345, 1)>>
      [] text = Text765c0 -> <<Num(765, 0)>>
      [] text = TextNeg5 -> <<Num(-5, 0)>>
      [] text = TextPad12 -> <<Num(12, 0)>>
      [] text = Text0c5 -> <<Num(5, 1)>>
      [] text = Text999 -> <<Num(999, 0)>>
      [] OTHER -> <<>>

RECURSIVE ExpectedSum(_)
ExpectedSum(cells) ==
    IF cells = <<>> THEN Zero
    ELSE LET c == Head(cells)
             n == IF c.cls = "damtotaltd" THEN CellNumber(c.text) ELSE <<>>
         IN  IF n = <<>> THEN ExpectedSum(Tail(cells))
             ELSE Add(n[1], ExpectedSum(Tail(cells)))

\* C8: _sum_row is the sum of the aggregate-class cells of the row whose
\* text is a number (thousands dots removed, decimal comma as point); other
\* cells add nothing; cells "1.234,5", "bad", "765,0" give 1999.5; an absent
\* label or a label outside any row gives 0.0.
C8_SumRow ==
    srPc = "done" =>
        /\ srOut = IF srRow.kind = "None" \/ ~srRow.inTr THEN Zero
                   ELSE ExpectedSum(srRow.cells)
        /\ srRow = Label(TRUE, <<Cell("damtotaltd", Text1234c5), Cell("damtotaltd", TextBad),
                                 Cell("damtotaltd", Text765c0)>>)
              => srOut = Num(19995, 1)

\* C8 witness: the row "1.234,5", "bad", "765,0" summed to 1999.5
C8_ExampleRow ==
    /\ srPc = "done"
    /\ srRow = Label(TRUE, <<Cell("damtotaltd", Text1234c5), Cell("damtotaltd", TextBad),
                             Cell("damtotaltd", Text765c0)>>)
    /\ srOut = Num(19995, 1)

====
